---- MODULE Spec2Model ----
(***************************************************************************)
(* signalmice: an agent that polls a Redis key and powers the host off     *)
(* when the key is found.  The model covers the control loop of main, the  *)
(* check-and-clear of the Redis client and the ordered chain of shutdown   *)
(* methods of the shutdown manager.  Each blocking call to the outside     *)
(* (a Redis round trip, an external command, a file write) is one step of  *)
(* the single goroutine that runs main; the store's other writers, the     *)
(* ticker and the operating system's signals are separate actions that     *)
(* interleave with those steps.                                            *)
(***************************************************************************)
EXTENDS Integers, Sequences, FiniteSets

(* ---------------------------------------------------------------- bounds *)

\* number of detection cycles the loop may start in one run of the model
MaxCycles == 3

\* number of external writes of the signal key in one run of the model
MaxWrites == 2

\* number of times the ticker fires in one run of the model
MaxTicks == 3

\* number of calls of the Logger's methods in one run of the model
MaxLogCalls == 2

(* ------------------------------------------------------------- constants *)

\* the store holds no value under the signal key (redis.Nil on GET)
None == "<nil>"

\* payloads an external writer may store under the key
Values == {"shutdown", "test"}

\* the method list as it would be with its first two entries swapped
methodsReordered == <<"sysrq-trigger", "nsenter", "direct-command">>

\* what os.LookupEnv returns for a variable: set to a string, which may be
\* empty, or not set; Unset for a variable read as a string, UnsetChars
\* for one read as a sequence of characters
SetTo(s) == [exists |-> TRUE, value |-> s]
Unset == [exists |-> FALSE, value |-> ""]
UnsetChars == [exists |-> FALSE, value |-> <<>>]

\* getEnv: the value of the variable if it is set, else the default
getEnv(v, defaultValue) == IF v.exists THEN v.value ELSE defaultValue

\* getEnvBool: the default if the variable is not set, else whether its
\* value is one of "true", "1", "yes"
getEnvBool(v, defaultValue) ==
  IF v.exists
    THEN v.value \in {"true", "1", "yes"}
    ELSE defaultValue

\* a string that strconv.Atoi parses is a sequence of characters
DigitChars == <<"0", "1", "2", "3", "4", "5", "6", "7", "8", "9">>
IsDigit(c) == \E d \in 1..Len(DigitChars) : DigitChars[d] = c
DigitOf(c) == (CHOOSE d \in 1..Len(DigitChars) : DigitChars[d] = c) - 1

\* an int of Go is modelled by its sign and its decimal digits, most
\* significant first and without leading zeros; zero has no digits
Zero == [neg |-> FALSE, mag |-> <<>>]

RECURSIVE StripZeros(_)
StripZeros(ds) ==
  IF ds # <<>> /\ ds[1] = 0 THEN StripZeros(Tail(ds)) ELSE ds

\* a <= b for two digit sequences without leading zeros
RECURSIVE LexLeq(_, _)
LexLeq(a, b) ==
  IF a = <<>> THEN TRUE
  ELSE IF a[1] # b[1] THEN a[1] < b[1]
  ELSE LexLeq(Tail(a), Tail(b))

MagLeq(a, b) == Len(a) < Len(b) \/ (Len(a) = Len(b) /\ LexLeq(a, b))

\* the largest and the smallest int (64 bits): 2^63 - 1 and -2^63
MaxIntMag == <<9, 2, 2, 3, 3, 7, 2, 0, 3, 6, 8, 5, 4, 7, 7, 5, 8, 0, 7>>
MinIntMag == <<9, 2, 2, 3, 3, 7, 2, 0, 3, 6, 8, 5, 4, 7, 7, 5, 8, 0, 8>>

\* a variant of Atoi that gives 60, the default interval, for a string of
\* another form
AtoiOrDefault(s) ==
  LET signed == s # <<>> /\ s[1] \in {"+", "-"}
      body == IF signed THEN Tail(s) ELSE s
      mag == StripZeros([i \in 1..Len(body) |-> DigitOf(body[i])])
  IN IF body = <<>> \/ \E i \in 1..Len(body) : ~IsDigit(body[i])
       THEN [neg |-> FALSE, mag |-> <<6, 0>>]
       ELSE [neg |-> signed /\ s[1] = "-" /\ mag # <<>>, mag |-> mag]

\* strconv.Atoi with its error dropped, as Load calls it: an optional sign
\* and decimal digits give their value; a string of another form gives 0;
\* a value out of the range of int gives the nearest int
Atoi(s) ==
  LET signed == s # <<>> /\ s[1] \in {"+", "-"}
      body == IF signed THEN Tail(s) ELSE s
      neg == signed /\ s[1] = "-"
  IN IF body = <<>> \/ \E i \in 1..Len(body) : ~IsDigit(body[i])
       THEN Zero
       ELSE LET mag == StripZeros([i \in 1..Len(body) |-> DigitOf(body[i])])
                lim == IF neg THEN MinIntMag ELSE MaxIntMag
            IN IF mag = <<>> THEN Zero
               ELSE IF MagLeq(mag, lim) THEN [neg |-> neg, mag |-> mag]
               ELSE [neg |-> neg, mag |-> lim]

\* time.Second, in nanoseconds, is 1 followed by these zeros; the largest
\* number of seconds whose nanoseconds fit a time.Duration (64 bits)
SecondZeros == <<0, 0, 0, 0, 0, 0, 0, 0, 0>>
MaxSecondsMag == <<9, 2, 2, 3, 3, 7, 2, 0, 3, 6>>

\* a time.Duration is modelled by its nanoseconds; wrapped marks the
\* product of a multiplication that overflowed 64 bits
Nanoseconds(n) ==
  [wrapped |-> FALSE, neg |-> n.neg,
   mag |-> IF n.mag = <<>> THEN <<>> ELSE n.mag \o SecondZeros]

\* time.Duration(n) * time.Second
TimesSecond(n) ==
  IF MagLeq(n.mag, MaxSecondsMag)
    THEN Nanoseconds(n)
    ELSE [wrapped |-> TRUE, neg |-> n.neg, mag |-> n.mag]

\* the int that a sign and digits stand for, for a value of few digits
RECURSIVE MagValue(_)
MagValue(ds) ==
  IF ds = <<>> THEN 0 ELSE 10 * MagValue(SubSeq(ds, 1, Len(ds) - 1)) + ds[Len(ds)]

IntOf(n) == IF n.neg THEN 0 - MagValue(n.mag) ELSE MagValue(n.mag)

\* the default of SIGNALMICE_CHECK_INTERVAL and values it may be set to
DefaultInterval == <<"6", "0">>
IntervalEnv ==
  {UnsetChars} \cup
    {SetTo(s) : s \in {<<"0">>, <<"-", "5">>,
                       <<"i", "n", "v", "a", "l", "i", "d">>}}

\* Config.CheckInterval as Load computes it, in seconds
LoadCheckInterval(env) == IntOf(Atoi(getEnv(env, DefaultInterval)))

\* no Config yet
NotLoaded == [loaded |-> FALSE]

\* Load: the fields of Config that depend on SIGNALMICE_CHECK_INTERVAL, on
\* OPENSEARCH_INDEX and on OPENSEARCH_USE_DAILY_INDEX
Load(env) ==
  [loaded |-> TRUE,
   CheckInterval |-> TimesSecond(Atoi(getEnv(env.interval, DefaultInterval))),
   OpensearchIndex |-> getEnv(env.index, "signalmice-logs"),
   OpensearchUseDailyIndex |-> getEnvBool(env.daily, TRUE)]

\* the ordered method table of NeutralizeStuartLittle
methods == <<"nsenter", "sysrq-trigger", "direct-command">>

NumMethods == Len(methods)

\* the error values of the program, by their message
ErrNil == "nil"
ErrGet == "failed to get key"
ErrDel == "failed to delete key"
ErrNsenter == "nsenter poweroff failed"
ErrNotMounted == "host proc path not mounted"
ErrSysrqWrite == "failed to write to sysrq-trigger"
ErrDirect == "shutdown commands failed"

\* the value NeutralizeStuartLittle returns: nil, or the aggregate error
\* wrapping one method's error with %w
OrchUnset == [msg |-> "unset", wraps |-> "unset"]
OrchNil == [msg |-> ErrNil, wraps |-> ErrNil]
AllFailed(e) == [msg |-> "all shutdown methods failed", wraps |-> e]

\* the pair CheckAndDeleteKey returns
CheckUnset == [found |-> FALSE, err |-> "unset"]
CheckRet(f, e) == [found |-> f, err |-> e]

\* first blocking call of each shutdown method
MethodEntry(name) ==
  CASE name = "nsenter" -> "nsenter_cmd"
    [] name = "sysrq-trigger" -> "sysrq_stat"
    [] name = "direct-command" -> "direct_poweroff"

\* one console line: log.Printf("[%s] %s", level, message)
Line(level, message) == <<level, message>>

(* ----------------------------------------------------------------- state *)

VARIABLES
  pc,               \* position of main's goroutine
  store,            \* value under the signal key in Redis, or None
  writes,           \* external writes of the key so far
  hostProcMounted,  \* hostProcPath exists in the container
  CheckInterval,    \* cfg.CheckInterval, in seconds
  sigPending,       \* sigChan (capacity 1) holds a signal
  sigWhileIdle,     \* that signal arrived with no checkAndShutdown running
  tickPending,      \* ticker.C (capacity 1) holds a tick
  ticksFired,       \* times the ticker has fired so far
  cancelled,        \* cancel() of the shared context was called
  cycles,           \* calls of checkAndShutdown so far
  ticksConsumed,    \* receives from ticker.C so far
  active,           \* calls of checkAndShutdown that have not returned
  cycleKind,        \* "startup" (main line 69) or "tick" (line 74)
  startupDone,      \* the call of line 69 has returned
  keyAtStartup,     \* the key was in the store when the call of line 69 began
  getRes,           \* answer of the GET of the current check
  delRes,           \* answer of the DEL of the current check
  delRemoved,       \* number of keys that DEL reports as removed
  result,           \* value read by that GET
  ops,              \* store operations issued by the current check
  checkRet,         \* what the most recent CheckAndDeleteKey returned
  prevCheckRet,     \* what the call before that one returned
  detections,       \* calls of CheckAndDeleteKey that returned (true, nil)
  wroteSinceDetect, \* an external write happened since the last detection
  mi,               \* index of the method being run
  attempts,         \* names of the methods invoked in this run, in order
  results,          \* their errors, in order
  lastErr,          \* lastErr of NeutralizeStuartLittle
  orchRet,          \* what NeutralizeStuartLittle returned
  lastOrch,         \* how the most recent run of any cycle ended
  orchCalls,        \* calls of NeutralizeStuartLittle in this cycle
  cmds,             \* external commands run in this cycle: <<name, ok>>
  written,          \* writes to sysrq-trigger in this cycle: <<code, ok>>
  console,          \* console lines of this cycle
  environ,          \* the process environment: [interval, index, daily]
  boolDefault,      \* default handed to a direct call of getEnvBool
  cfg,              \* what Load returned
  boolRet,          \* what that call of getEnvBool returned
  sink,             \* what NewLogger finds at cfg.OpensearchURL
  client,           \* Logger.client: "unset", "nil" or "client"
  calls,            \* calls of the Logger's methods: <<method, message>>
  inflight,         \* goroutines running sendToOpensearch
  deliveries        \* calls of client.Index so far

cfgVars == <<environ, boolDefault, cfg, boolRet>>
logVars == <<sink, client, calls, inflight, deliveries>>
envVars == <<store, writes, hostProcMounted, CheckInterval, sigPending,
             sigWhileIdle, tickPending, ticksFired, cfgVars, logVars>>
loopVars == <<pc, cancelled, cycles, ticksConsumed, active, cycleKind,
              startupDone, keyAtStartup>>
checkVars == <<getRes, delRes, delRemoved, result, ops, checkRet, prevCheckRet,
               detections, wroteSinceDetect>>
orchVars == <<mi, attempts, results, lastErr, orchRet, lastOrch, orchCalls>>
sideVars == <<cmds, written, console>>

vars == <<envVars, loopVars, checkVars, orchVars, sideVars>>

InCycle == {"get", "del", "nsenter_cmd", "sysrq_stat", "sysrq_s", "sysrq_u",
            "sysrq_o", "direct_poweroff", "direct_fallback"}

\* the loop of main lines 62-82 has been entered and not left
Running == pc \in InCycle \cup {"wait"}

\* no call of getEnvBool has returned
NoRet == [returned |-> FALSE, value |-> FALSE]

\* a Logger without client and without calls: the agent of Spec logs to
\* the console only
ConsoleOnly ==
  /\ sink = "unreachable"
  /\ client = "nil"
  /\ calls = <<>>
  /\ inflight = {}
  /\ deliveries = {}

\* the variables of the loop, of the check and of the run before main
\* has entered the loop
LoopInit ==
  /\ store = None
  /\ writes = 0
  /\ sigPending = FALSE
  /\ sigWhileIdle = FALSE
  /\ tickPending = FALSE
  /\ ticksFired = 0
  /\ cancelled = FALSE
  /\ cycles = 0
  /\ ticksConsumed = 0
  /\ active = 0
  /\ cycleKind = "none"
  /\ startupDone = FALSE
  /\ keyAtStartup = FALSE
  /\ getRes = "none"
  /\ delRes = "none"
  /\ delRemoved = 0
  /\ result = None
  /\ ops = <<>>
  /\ checkRet = CheckUnset
  /\ prevCheckRet = CheckUnset
  /\ detections = 0
  /\ wroteSinceDetect = FALSE
  /\ mi = 0
  /\ attempts = <<>>
  /\ results = <<>>
  /\ lastErr = ErrNil
  /\ orchRet = OrchUnset
  /\ lastOrch = "none"
  /\ orchCalls = 0
  /\ cmds = <<>>
  /\ written = <<>>
  /\ console = <<>>

\* main has loaded the configuration and built the logger and is about
\* to connect to Redis
Init ==
  /\ pc = "connect"
  /\ hostProcMounted \in BOOLEAN
  /\ environ \in [interval : IntervalEnv, index : {Unset}, daily : {Unset}]
  /\ boolDefault = TRUE
  /\ cfg = Load(environ)
  /\ boolRet = NoRet
  /\ CheckInterval = LoadCheckInterval(environ.interval)
  /\ ConsoleOnly
  /\ LoopInit

(* ----------------------------------------------------------- environment *)

\* another client runs SET key value (README: redis-cli SET ... "shutdown")
ExternalWrite ==
  /\ pc \notin {"exit0", "exit1", "panic"}
  /\ writes < MaxWrites
  /\ \E v \in Values : store' = v
  /\ writes' = writes + 1
  /\ wroteSinceDetect' = TRUE
  /\ UNCHANGED <<hostProcMounted, CheckInterval, cfgVars, logVars, sigPending,
                 sigWhileIdle, tickPending, ticksFired, loopVars, orchVars,
                 sideVars>>
  /\ UNCHANGED <<getRes, delRes, delRemoved, result, ops, checkRet,
                 prevCheckRet, detections>>

\* the ticker of main line 63 fires; its channel holds one tick, a tick
\* that finds the channel full is dropped
TimerFire ==
  /\ Running
  /\ ticksFired < MaxTicks
  /\ ticksFired' = ticksFired + 1
  /\ tickPending' = TRUE
  /\ UNCHANGED <<store, writes, hostProcMounted, CheckInterval, cfgVars,
                 logVars, sigPending, sigWhileIdle, loopVars, checkVars,
                 orchVars, sideVars>>

\* SIGINT or SIGTERM is delivered to sigChan (main lines 59-60), which
\* holds one signal
SignalArrive ==
  /\ Running
  /\ ~sigPending
  /\ sigPending' = TRUE
  /\ sigWhileIdle' = (pc = "wait")
  /\ UNCHANGED <<store, writes, hostProcMounted, CheckInterval, cfgVars,
                 logVars, tickPending, ticksFired, loopVars, checkVars,
                 orchVars, sideVars>>

\* another client of the store deletes the key: a second agent that
\* watches the same key issues the DEL of its own check
OtherClientDel ==
  /\ pc \notin {"exit0", "exit1", "panic"}
  /\ store # None
  /\ store' = None
  /\ UNCHANGED <<writes, hostProcMounted, CheckInterval, cfgVars, logVars,
                 sigPending, sigWhileIdle, tickPending, ticksFired, loopVars,
                 checkVars, orchVars, sideVars>>

(* ---------------------------------------------------------------- config *)

\* values of SIGNALMICE_CHECK_INTERVAL
ConfigIntervalEnv ==
  IntervalEnv \cup
    {SetTo(s) : s \in
      {<<>>, <<"3", "0">>, <<"+", "7">>, <<"0", "0", "9">>, <<"-", "0">>,
       <<" ", "5">>, <<"1", "e", "3">>, <<"-">>,
       <<"9", "2", "2", "3", "3", "7", "2", "0", "3", "6">>,
       <<"9", "2", "2", "3", "3", "7", "2", "0", "3", "7">>,
       <<"-", "9", "2", "2", "3", "3", "7", "2", "0", "3", "7">>,
       <<"9", "9", "9", "9", "9", "9", "9", "9", "9", "9",
         "9", "9", "9", "9", "9", "9", "9", "9", "9", "9">>}}

\* values of a boolean environment variable
ConfigBoolEnv ==
  {Unset} \cup
    {SetTo(s) : s \in {"", "true", "1", "yes", "false", "0", "no", "TRUE",
                       "on"}}

\* the process before main has called config.Load
InitConfig ==
  /\ pc = "start"
  /\ hostProcMounted = TRUE
  /\ environ \in [interval : ConfigIntervalEnv, index : {Unset},
                  daily : ConfigBoolEnv]
  /\ boolDefault \in BOOLEAN
  /\ cfg = NotLoaded
  /\ boolRet = NoRet
  /\ CheckInterval = 0
  /\ ConsoleOnly
  /\ LoopInit

\* cfg := config.Load()
LoadConfig ==
  /\ pc = "start"
  /\ ~cfg.loaded
  /\ cfg' = Load(environ)
  /\ UNCHANGED <<store, writes, hostProcMounted, CheckInterval, sigPending,
                 sigWhileIdle, tickPending, ticksFired, environ, boolDefault,
                 boolRet, logVars, loopVars, checkVars, orchVars, sideVars>>

\* a direct call getEnvBool(key, boolDefault), key being the variable whose
\* value is environ.daily
CallGetEnvBool ==
  /\ pc = "start"
  /\ ~boolRet.returned
  /\ boolRet' = [returned |-> TRUE,
                 value |-> getEnvBool(environ.daily, boolDefault)]
  /\ UNCHANGED <<store, writes, hostProcMounted, CheckInterval, sigPending,
                 sigWhileIdle, tickPending, ticksFired, environ, boolDefault,
                 cfg, logVars, loopVars, checkVars, orchVars, sideVars>>

NextConfig ==
  \/ LoadConfig
  \/ CallGetEnvBool

SpecConfig == InitConfig /\ [][NextConfig]_vars

(* ---------------------------------------------------------------- logger *)

\* the exported methods of Logger and the Level each hands to log
Methods == {"Info", "InfoWithExtra", "Warn", "WarnWithExtra", "Error",
            "ErrorWithExtra", "Debug", "DebugWithExtra"}

LevelOf(method) ==
  CASE method \in {"Info", "InfoWithExtra"} -> "INFO"
    [] method \in {"Warn", "WarnWithExtra"} -> "WARN"
    [] method \in {"Error", "ErrorWithExtra"} -> "ERROR"
    [] method \in {"Debug", "DebugWithExtra"} -> "DEBUG"

\* a message that main hands to the Logger
Messages == {"Connected to Redis successfully"}

\* the day of the run, as time.Now().UTC().Format("2006-01-02") gives it
Today == "2026-01-01"

\* a line that log.Printf or log.Fatalf writes without a level tag
RawLine(message) == <<message>>

\* lines that the logger package writes on its own account
CouldNotConnect == Line("WARN", "Could not connect to Opensearch")
FailedToSend == Line("ERROR", "Failed to send log to Opensearch")
ReturnedError == Line("ERROR", "Opensearch returned error")

\* the name of an index as the parts it is made of
IndexName(parts) == parts

\* Logger.index, set by NewLogger
LoggerIndex == IndexName(<<cfg.OpensearchIndex>>)

\* what a step of the logger leaves alone
agentVars == <<store, writes, hostProcMounted, CheckInterval, sigPending,
               sigWhileIdle, tickPending, ticksFired, cfgVars, cycles,
               ticksConsumed, active, cycleKind, startupDone, keyAtStartup,
               checkVars, orchVars, cmds, written>>

\* main has loaded the configuration and is about to call NewLogger
InitLogger ==
  /\ pc = "newlogger"
  /\ hostProcMounted = TRUE
  /\ environ \in [interval : {UnsetChars}, index : {Unset},
                  daily : {Unset, SetTo("false")}]
  /\ boolDefault = TRUE
  /\ cfg = Load(environ)
  /\ boolRet = NoRet
  /\ CheckInterval = LoadCheckInterval(environ.interval)
  /\ sink \in {"bad-url", "unreachable", "reachable"}
  /\ client = "unset"
  /\ calls = <<>>
  /\ inflight = {}
  /\ deliveries = {}
  /\ LoopInit

\* NewLogger: opensearch.NewClient refuses the configuration, NewLogger
\* returns an error and main ends the process with log.Fatalf
NewLoggerError ==
  /\ pc = "newlogger"
  /\ sink = "bad-url"
  /\ pc' = "fatal"
  /\ console' = Append(console, RawLine("Failed to initialize logger"))
  /\ UNCHANGED <<agentVars, cancelled, logVars>>

\* NewLogger: client.Info fails; a Logger without client is returned
NewLoggerConsoleOnly ==
  /\ pc = "newlogger"
  /\ sink = "unreachable"
  /\ pc' = "ready"
  /\ client' = "nil"
  /\ console' = Append(console, CouldNotConnect)
  /\ UNCHANGED <<agentVars, cancelled, sink, calls, inflight, deliveries>>

\* NewLogger: client.Info answers; a Logger with the client is returned
NewLoggerOk ==
  /\ pc = "newlogger"
  /\ sink = "reachable"
  /\ pc' = "ready"
  /\ client' = "client"
  /\ UNCHANGED <<agentVars, cancelled, console, sink, calls, inflight,
                 deliveries>>

\* the goroutine that log starts for an entry
Goroutine(method, message) ==
  [id |-> Len(calls) + 1, level |-> LevelOf(method), message |-> message]

\* a variant of log that starts the goroutine whatever the client is
logAlwaysDispatches(method, message) ==
  /\ console' = Append(console, Line(LevelOf(method), message))
  /\ calls' = Append(calls, <<method, message>>)
  /\ inflight' = inflight \cup {Goroutine(method, message)}

\* a variant of log that writes its line ahead of the earlier ones
logPrepends(method, message) ==
  /\ console' = <<Line(LevelOf(method), message)>> \o console
  /\ calls' = Append(calls, <<method, message>>)
  /\ inflight' = IF client # "nil"
                   THEN inflight \cup {Goroutine(method, message)}
                   ELSE inflight

\* log: one line on the console, then a goroutine for the delivery if
\* there is a client
log(method, message) ==
  /\ console' = Append(console, Line(LevelOf(method), message))
  /\ calls' = Append(calls, <<method, message>>)
  /\ inflight' = IF client # "nil"
                   THEN inflight \cup {Goroutine(method, message)}
                   ELSE inflight

\* a variant of LogCall that makes the delivery before it returns
LogCallSynchronous(method, message) ==
  /\ pc = "ready"
  /\ Len(calls) < MaxLogCalls
  /\ console' = Append(console, Line(LevelOf(method), message))
  /\ calls' = Append(calls, <<method, message>>)
  /\ deliveries' =
       IF client # "nil"
         THEN deliveries \cup
                {[id |-> Len(calls) + 1, index |-> LoggerIndex,
                  outcome |-> "ok", attempt |-> 1]}
         ELSE deliveries
  /\ UNCHANGED <<agentVars, pc, cancelled, sink, client, inflight>>

\* a call of one of the methods by main's goroutine
LogCall(method, message) ==
  /\ pc = "ready"
  /\ Len(calls) < MaxLogCalls
  /\ log(method, message)
  /\ UNCHANGED <<agentVars, pc, cancelled, sink, client, deliveries>>

\* cancel() of the context that every call of log was given
Cancel ==
  /\ pc = "ready"
  /\ ~cancelled
  /\ cancelled' = TRUE
  /\ UNCHANGED <<agentVars, pc, console, logVars>>

\* main returns or calls os.Exit: the goroutines end with the process
ProcessExits ==
  /\ pc = "ready"
  /\ pc' = "exit"
  /\ inflight' = {}
  /\ UNCHANGED <<agentVars, cancelled, console, sink, client, calls,
                 deliveries>>

\* the call client.Index(l.index, ...) of a goroutine; json.Marshal
\* before it does not fail on the entries of this program, whose extra
\* fields are maps of strings
Delivery(g, outcome) ==
  [id |-> g.id, index |-> LoggerIndex, outcome |-> outcome,
   attempt |-> 1 + Cardinality({d \in deliveries : d.id = g.id})]

\* sendToOpensearch: the document is indexed
SendOk(g) ==
  /\ g \in inflight
  /\ ~cancelled
  /\ inflight' = inflight \ {g}
  /\ deliveries' = deliveries \cup {Delivery(g, "ok")}
  /\ UNCHANGED <<agentVars, pc, cancelled, console, sink, client, calls>>

\* a variant of SendErr that ends main's goroutine
SendErrPropagates(g) ==
  /\ g \in inflight
  /\ inflight' = inflight \ {g}
  /\ deliveries' = deliveries \cup {Delivery(g, "err")}
  /\ console' = Append(console, FailedToSend)
  /\ pc' = "fatal"
  /\ UNCHANGED <<agentVars, cancelled, sink, client, calls>>

\* sendToOpensearch: client.Index returns an error (the sink cannot be
\* reached, or the context is cancelled)
SendErr(g) ==
  /\ g \in inflight
  /\ inflight' = inflight \ {g}
  /\ deliveries' = deliveries \cup {Delivery(g, "err")}
  /\ console' = Append(console, FailedToSend)
  /\ UNCHANGED <<agentVars, pc, cancelled, sink, client, calls>>

\* sendToOpensearch: the sink answers with an error status
SendStatusError(g) ==
  /\ g \in inflight
  /\ ~cancelled
  /\ inflight' = inflight \ {g}
  /\ deliveries' = deliveries \cup {Delivery(g, "status")}
  /\ console' = Append(console, ReturnedError)
  /\ UNCHANGED <<agentVars, pc, cancelled, sink, client, calls>>

NewLogger ==
  \/ NewLoggerError
  \/ NewLoggerConsoleOnly
  \/ NewLoggerOk

sendToOpensearch ==
  \E g \in inflight :
    \/ SendOk(g)
    \/ SendErr(g)
    \/ SendStatusError(g)

NextLogger ==
  \/ NewLogger
  \/ \E method \in Methods, message \in Messages : LogCall(method, message)
  \/ sendToOpensearch
  \/ Cancel
  \/ ProcessExits

SpecLogger == InitLogger /\ [][NextLogger]_vars

(* ------------------------------------------------------------------ main *)

\* a call of checkAndShutdown begins: its first statement issues the GET
EnterCycle(kind) ==
  /\ pc' = "get"
  /\ cycleKind' = kind
  /\ active' = active + 1
  /\ getRes' = "none"
  /\ delRes' = "none"
  /\ delRemoved' = 0
  /\ result' = None
  /\ ops' = <<"GET">>
  /\ mi' = 0
  /\ attempts' = <<>>
  /\ results' = <<>>
  /\ lastErr' = ErrNil
  /\ orchRet' = OrchUnset
  /\ orchCalls' = 0
  /\ cmds' = <<>>
  /\ written' = <<>>
  /\ console' = <<>>
  /\ UNCHANGED <<checkRet, prevCheckRet, detections, wroteSinceDetect,
                 lastOrch>>

\* a call of checkAndShutdown, counted
StartCycle(kind) ==
  /\ cycles' = cycles + 1
  /\ EnterCycle(kind)

\* redis.NewClient: the Ping fails, main logs and calls os.Exit(1)
NewClientFail ==
  /\ pc = "connect"
  /\ pc' = "exit1"
  /\ console' = <<Line("ERROR", "Failed to connect to Redis")>>
  /\ UNCHANGED <<envVars, cancelled, cycles, ticksConsumed, active, cycleKind,
                 startupDone, keyAtStartup, checkVars, orchVars, cmds, written>>

\* a variant of main without the call of line 69
MainNoInitialCheck ==
  /\ pc = "connect"
  /\ CheckInterval > 0
  /\ pc' = "wait"
  /\ keyAtStartup' = (store # None)
  /\ UNCHANGED <<envVars, cancelled, cycles, ticksConsumed, active, cycleKind,
                 startupDone, checkVars, orchVars, sideVars>>

\* redis.NewClient succeeds and main registers the signals, but
\* time.NewTicker panics on an interval that is not positive: the deferred
\* cancel and Close run and the process ends with the panic's status
NewTickerPanics ==
  /\ pc = "connect"
  /\ CheckInterval <= 0
  /\ pc' = "panic"
  /\ cancelled' = TRUE
  /\ console' = <<Line("INFO", "Connected to Redis successfully")>>
  /\ UNCHANGED <<envVars, cycles, ticksConsumed, active, cycleKind, startupDone,
                 keyAtStartup, checkVars, orchVars, cmds, written>>

\* redis.NewClient succeeds; main registers the signals, creates the ticker
\* and runs the initial check
NewClientOk ==
  /\ pc = "connect"
  /\ CheckInterval > 0
  /\ StartCycle("startup")
  /\ keyAtStartup' = (store # None)
  /\ UNCHANGED <<envVars, cancelled, ticksConsumed, startupDone>>

\* a variant in which the end of a check ends the process
CycleReturnExits ==
  /\ pc' = "exit1"
  /\ active' = active - 1
  /\ startupDone' = (startupDone \/ cycleKind = "startup")
  /\ UNCHANGED <<cancelled, cycles, ticksConsumed, cycleKind, keyAtStartup>>

\* checkAndShutdown returns to its caller in main, which is or goes to the
\* select of line 72
CycleReturn ==
  /\ pc' = "wait"
  /\ active' = active - 1
  /\ startupDone' = (startupDone \/ cycleKind = "startup")
  /\ UNCHANGED <<cancelled, cycles, ticksConsumed, cycleKind, keyAtStartup>>

\* a variant in which the select is evaluated while a check is running, as
\* if checkAndShutdown ran in a goroutine of its own
AtSelectAsync == Running

\* the loop is blocked in, or about to evaluate, the select of line 72
AtSelect == pc = "wait"

\* the tick branch as it would be if receiving from ticker.C left the tick
\* in the channel
SelectTickKeepsTick ==
  /\ AtSelect
  /\ tickPending
  /\ cycles < MaxCycles
  /\ tickPending' = TRUE
  /\ ticksConsumed' = ticksConsumed + 1
  /\ StartCycle("tick")
  /\ UNCHANGED <<store, writes, hostProcMounted, CheckInterval, cfgVars,
                 logVars, sigPending, sigWhileIdle, ticksFired, cancelled,
                 startupDone, keyAtStartup>>

\* a variant of the tick branch that needs no tick, like a default branch
SelectTickPoll ==
  /\ AtSelect
  /\ cycles < MaxCycles
  /\ tickPending' = FALSE
  /\ ticksConsumed' = ticksConsumed + 1
  /\ StartCycle("tick")
  /\ UNCHANGED <<store, writes, hostProcMounted, CheckInterval, cfgVars,
                 logVars, sigPending, sigWhileIdle, ticksFired, cancelled,
                 startupDone, keyAtStartup>>

\* case <-ticker.C: run one check
SelectTick ==
  /\ AtSelect
  /\ tickPending
  /\ cycles < MaxCycles
  /\ tickPending' = FALSE
  /\ ticksConsumed' = ticksConsumed + 1
  /\ StartCycle("tick")
  /\ UNCHANGED <<store, writes, hostProcMounted, CheckInterval, cfgVars,
                 logVars, sigPending, sigWhileIdle, ticksFired, cancelled,
                 startupDone, keyAtStartup>>

\* a variant of SelectSig that receives the signal during a cycle too
SelectSigInterrupts ==
  /\ Running
  /\ sigPending
  /\ sigPending' = FALSE
  /\ sigWhileIdle' = FALSE
  /\ cancelled' = TRUE
  /\ pc' = "exit0"
  /\ console' = <<Line("INFO", "Received shutdown signal"),
                  Line("INFO", "Graceful shutdown complete")>>
  /\ UNCHANGED <<store, writes, hostProcMounted, CheckInterval, cfgVars,
                 logVars, tickPending, ticksFired, cycles, ticksConsumed,
                 active, cycleKind, startupDone, keyAtStartup, checkVars,
                 orchVars, cmds, written>>

\* case sig := <-sigChan: log, cancel the context, return from main
SelectSig ==
  /\ AtSelect
  /\ sigPending
  /\ sigPending' = FALSE
  /\ sigWhileIdle' = FALSE
  /\ cancelled' = TRUE
  /\ pc' = "exit0"
  /\ console' = <<Line("INFO", "Received shutdown signal"),
                  Line("INFO", "Graceful shutdown complete")>>
  /\ UNCHANGED <<store, writes, hostProcMounted, CheckInterval, cfgVars,
                 logVars, tickPending, ticksFired, cycles, ticksConsumed,
                 active, cycleKind, startupDone, keyAtStartup, checkVars,
                 orchVars, cmds, written>>

(* ------------------------------------------------------ CheckAndDeleteKey *)

\* CheckAndDeleteKey returns (f, e) to checkAndShutdown
CheckReturns(f, e) ==
  /\ checkRet' = CheckRet(f, e)
  /\ prevCheckRet' = checkRet
  /\ detections' = IF f /\ e = ErrNil THEN detections + 1 ELSE detections

\* a variant that goes on to the DEL when the GET answered redis.Nil
GetNilDeletes ==
  /\ pc = "get"
  /\ store = None
  /\ getRes' = "nil"
  /\ result' = store
  /\ ops' = Append(ops, "DEL")
  /\ pc' = "del"
  /\ UNCHANGED <<envVars, cancelled, cycles, ticksConsumed, active, cycleKind,
                 startupDone, keyAtStartup, delRes, delRemoved, checkRet,
                 prevCheckRet, detections, wroteSinceDetect, orchVars,
                 sideVars>>

\* a variant of GetNil that logs the absent key at ERROR level
GetNilLogsError ==
  /\ pc = "get"
  /\ store = None
  /\ getRes' = "nil"
  /\ CheckReturns(FALSE, ErrNil)
  /\ console' = Append(console, Line("ERROR", "Redis key not found"))
  /\ CycleReturn
  /\ UNCHANGED <<envVars, delRes, delRemoved, result, ops, wroteSinceDetect,
                 orchVars, cmds, written>>

\* GET answers redis.Nil: return (false, nil); checkAndShutdown logs at
\* DEBUG level and returns
GetNil ==
  /\ pc = "get"
  /\ store = None
  /\ getRes' = "nil"
  /\ CheckReturns(FALSE, ErrNil)
  /\ console' = Append(console, Line("DEBUG", "Redis key not found"))
  /\ CycleReturn
  /\ UNCHANGED <<envVars, delRes, delRemoved, result, ops, wroteSinceDetect,
                 orchVars, cmds, written>>

\* a variant of GetErr in which main ends the process on the error
GetErrExits ==
  /\ pc = "get"
  /\ getRes' = "error"
  /\ CheckReturns(FALSE, ErrGet)
  /\ console' = Append(console, Line("ERROR", "Error checking Redis key"))
  /\ CycleReturnExits
  /\ UNCHANGED <<envVars, delRes, delRemoved, result, ops, wroteSinceDetect,
                 orchVars, cmds, written>>

\* GET fails with another error: return (false, "failed to get key");
\* checkAndShutdown logs at ERROR level and returns
GetErr ==
  /\ pc = "get"
  /\ getRes' = "error"
  /\ CheckReturns(FALSE, ErrGet)
  /\ console' = Append(console, Line("ERROR", "Error checking Redis key"))
  /\ CycleReturn
  /\ UNCHANGED <<envVars, delRes, delRemoved, result, ops, wroteSinceDetect,
                 orchVars, cmds, written>>

\* a variant that deletes the key only when its value is "shutdown" and
\* reports any other value as not found
GetValueOnlyShutdown ==
  /\ pc = "get"
  /\ store # None
  /\ getRes' = "value"
  /\ result' = store
  /\ IF store = "shutdown"
       THEN /\ ops' = Append(ops, "DEL")
            /\ pc' = "del"
            /\ UNCHANGED <<cancelled, cycles, ticksConsumed, active, cycleKind,
                           startupDone, keyAtStartup, checkRet, prevCheckRet,
                           detections, console>>
       ELSE /\ CheckReturns(FALSE, ErrNil)
            /\ console' = Append(console, Line("DEBUG", "Redis key not found"))
            /\ CycleReturn
            /\ UNCHANGED ops
  /\ UNCHANGED <<envVars, delRes, delRemoved, wroteSinceDetect, orchVars, cmds,
                 written>>

\* GET answers a value: the key exists, issue the DEL
GetValue ==
  /\ pc = "get"
  /\ store # None
  /\ getRes' = "value"
  /\ result' = store
  /\ ops' = Append(ops, "DEL")
  /\ pc' = "del"
  /\ UNCHANGED <<envVars, cancelled, cycles, ticksConsumed, active, cycleKind,
                 startupDone, keyAtStartup, delRes, delRemoved, checkRet,
                 prevCheckRet, detections, wroteSinceDetect, orchVars,
                 sideVars>>

\* a variant that drops the error of the DEL and reports the key as found
DelErrIgnored ==
  /\ pc = "del"
  /\ delRes' = "error"
  /\ delRemoved' = 0
  /\ CheckReturns(TRUE, ErrNil)
  /\ wroteSinceDetect' = FALSE
  /\ orchCalls' = orchCalls + 1
  /\ mi' = 1
  /\ attempts' = <<methods[1]>>
  /\ console' = console \o
       <<Line("INFO", "Shutdown signal received!"),
         Line("INFO", "Initiating host machine shutdown..."),
         Line("INFO", "Attempting shutdown via " \o methods[1])>>
  /\ pc' = MethodEntry(methods[1])
  /\ UNCHANGED <<envVars, cancelled, cycles, ticksConsumed, active, cycleKind,
                 startupDone, keyAtStartup, getRes, result, ops, results,
                 lastErr, orchRet, lastOrch, cmds, written>>

\* DEL fails: return (false, "failed to delete key"); the store keeps the
\* key; checkAndShutdown logs at ERROR level and returns
DelErr ==
  /\ pc = "del"
  /\ delRes' = "error"
  /\ delRemoved' = 0
  /\ CheckReturns(FALSE, ErrDel)
  /\ console' = Append(console, Line("ERROR", "Error checking Redis key"))
  /\ CycleReturn
  /\ UNCHANGED <<envVars, getRes, result, ops, wroteSinceDetect, orchVars, cmds,
                 written>>

\* a variant of the found branch of checkAndShutdown that returns without
\* calling the shutdown manager
DelOkNoShutdown ==
  /\ pc = "del"
  /\ delRes' = "ok"
  /\ delRemoved' = (IF store = None THEN 0 ELSE 1)
  /\ store' = None
  /\ CheckReturns(TRUE, ErrNil)
  /\ wroteSinceDetect' = FALSE
  /\ console' = Append(console, Line("INFO", "Shutdown signal received!"))
  /\ CycleReturn
  /\ UNCHANGED <<writes, hostProcMounted, CheckInterval, cfgVars, logVars,
                 sigPending, sigWhileIdle, tickPending, ticksFired, getRes,
                 result, ops, orchVars, cmds, written>>

\* a variant of CheckAndDeleteKey that reports the key without removing it
DelOkKeepsKey ==
  /\ pc = "del"
  /\ delRes' = "ok"
  /\ delRemoved' = (IF store = None THEN 0 ELSE 1)
  /\ store' = store
  /\ CheckReturns(TRUE, ErrNil)
  /\ wroteSinceDetect' = FALSE
  /\ orchCalls' = orchCalls + 1
  /\ mi' = 1
  /\ attempts' = <<methods[1]>>
  /\ console' = console \o
       <<Line("INFO", "Shutdown signal received!"),
         Line("INFO", "Initiating host machine shutdown..."),
         Line("INFO", "Attempting shutdown via " \o methods[1])>>
  /\ pc' = MethodEntry(methods[1])
  /\ UNCHANGED <<writes, hostProcMounted, CheckInterval, cfgVars, logVars,
                 sigPending, sigWhileIdle, tickPending, ticksFired, cancelled,
                 cycles, ticksConsumed, active, cycleKind, startupDone,
                 keyAtStartup, getRes, result, ops, results, lastErr, orchRet,
                 lastOrch, cmds, written>>

\* DEL succeeds: return (true, nil); checkAndShutdown logs and calls
\* NeutralizeStuartLittle, which logs and invokes the first method
DelOk ==
  /\ pc = "del"
  /\ delRes' = "ok"
  /\ delRemoved' = (IF store = None THEN 0 ELSE 1)
  /\ store' = None
  /\ CheckReturns(TRUE, ErrNil)
  /\ wroteSinceDetect' = FALSE
  /\ orchCalls' = orchCalls + 1
  /\ mi' = 1
  /\ attempts' = <<methods[1]>>
  /\ console' = console \o
       <<Line("INFO", "Shutdown signal received!"),
         Line("INFO", "Initiating host machine shutdown..."),
         Line("INFO", "Attempting shutdown via " \o methods[1])>>
  /\ pc' = MethodEntry(methods[1])
  /\ UNCHANGED <<writes, hostProcMounted, CheckInterval, cfgVars, logVars,
                 sigPending, sigWhileIdle, tickPending, ticksFired, cancelled,
                 cycles, ticksConsumed, active, cycleKind, startupDone,
                 keyAtStartup, getRes, result, ops, results, lastErr, orchRet,
                 lastOrch, cmds, written>>

(* ------------------------------------------------ NeutralizeStuartLittle *)

\* a variant of the loop body that keeps going after a method succeeded
MethodSucceededContinue ==
  /\ results' = Append(results, ErrNil)
  /\ IF mi < NumMethods
       THEN /\ mi' = mi + 1
            /\ attempts' = Append(attempts, methods[mi + 1])
            /\ pc' = MethodEntry(methods[mi + 1])
            /\ console' = console \o
                 <<Line("INFO", "Shutdown initiated successfully via "
                                   \o methods[mi]),
                   Line("INFO", "Attempting shutdown via " \o methods[mi + 1])>>
            /\ UNCHANGED <<orchRet, lastOrch, cancelled, cycles, ticksConsumed,
                           active, cycleKind, startupDone, keyAtStartup>>
       ELSE /\ orchRet' = OrchNil
            /\ lastOrch' = "ok"
            /\ console' = console \o
                 <<Line("INFO", "Shutdown initiated successfully via "
                                   \o methods[mi]),
                   Line("INFO", "Host shutdown initiated successfully")>>
            /\ CycleReturn
            /\ UNCHANGED <<mi, attempts>>
  /\ UNCHANGED <<lastErr, orchCalls>>

\* the current method returned nil: log, return nil; checkAndShutdown logs
\* the success and returns
MethodSucceeded ==
  /\ results' = Append(results, ErrNil)
  /\ orchRet' = OrchNil
  /\ lastOrch' = "ok"
  /\ console' = console \o
       <<Line("INFO", "Shutdown initiated successfully via " \o methods[mi]),
         Line("INFO", "Host shutdown initiated successfully")>>
  /\ CycleReturn
  /\ UNCHANGED <<mi, attempts, lastErr, orchCalls>>

\* a variant of the loop body that keeps the first error instead of the last
MethodFailedKeepsFirst(e) ==
  /\ results' = Append(results, e)
  /\ lastErr' = IF lastErr = ErrNil THEN e ELSE lastErr
  /\ IF mi < NumMethods
       THEN /\ mi' = mi + 1
            /\ attempts' = Append(attempts, methods[mi + 1])
            /\ pc' = MethodEntry(methods[mi + 1])
            /\ console' = console \o
                 <<Line("WARN", "Shutdown via " \o methods[mi] \o " failed"),
                   Line("INFO", "Attempting shutdown via " \o methods[mi + 1])>>
            /\ UNCHANGED <<orchRet, lastOrch, cancelled, cycles, ticksConsumed,
                           active, cycleKind, startupDone, keyAtStartup>>
       ELSE /\ orchRet' = AllFailed(lastErr')
            /\ lastOrch' = "failed"
            /\ console' = console \o
                 <<Line("WARN", "Shutdown via " \o methods[mi] \o " failed"),
                   Line("ERROR", "Failed to initiate host shutdown")>>
            /\ CycleReturn
            /\ UNCHANGED <<mi, attempts>>
  /\ UNCHANGED orchCalls

\* a variant of checkAndShutdown that calls NeutralizeStuartLittle again
\* when it returned the aggregate error
MethodFailedRetries(e) ==
  /\ results' = Append(results, e)
  /\ lastErr' = e
  /\ IF mi < NumMethods
       THEN /\ mi' = mi + 1
            /\ attempts' = Append(attempts, methods[mi + 1])
            /\ pc' = MethodEntry(methods[mi + 1])
            /\ console' = console \o
                 <<Line("WARN", "Shutdown via " \o methods[mi] \o " failed"),
                   Line("INFO", "Attempting shutdown via " \o methods[mi + 1])>>
            /\ UNCHANGED <<orchRet, lastOrch, orchCalls, cancelled, cycles,
                           ticksConsumed, active, cycleKind, startupDone,
                           keyAtStartup>>
       ELSE /\ orchRet' = AllFailed(lastErr')
            /\ lastOrch' = "failed"
            /\ console' = console \o
                 <<Line("WARN", "Shutdown via " \o methods[mi] \o " failed"),
                   Line("ERROR", "Failed to initiate host shutdown")>>
            /\ IF orchCalls < 2
                 THEN /\ orchCalls' = orchCalls + 1
                      /\ mi' = 1
                      /\ attempts' = Append(attempts, methods[1])
                      /\ pc' = MethodEntry(methods[1])
                      /\ UNCHANGED <<cancelled, cycles, ticksConsumed, active,
                                     cycleKind, startupDone, keyAtStartup>>
                 ELSE /\ CycleReturn
                      /\ UNCHANGED <<mi, attempts, orchCalls>>

\* a variant of the loop body that records the error of a failed method
\* without logging it
MethodFailedSilent(e) ==
  /\ results' = Append(results, e)
  /\ lastErr' = e
  /\ IF mi < NumMethods
       THEN /\ mi' = mi + 1
            /\ attempts' = Append(attempts, methods[mi + 1])
            /\ pc' = MethodEntry(methods[mi + 1])
            /\ console' = console \o
                 <<Line("INFO", "Attempting shutdown via " \o methods[mi + 1])>>
            /\ UNCHANGED <<orchRet, lastOrch, cancelled, cycles, ticksConsumed,
                           active, cycleKind, startupDone, keyAtStartup>>
       ELSE /\ orchRet' = AllFailed(lastErr')
            /\ lastOrch' = "failed"
            /\ console' = console \o
                 <<Line("ERROR", "Failed to initiate host shutdown")>>
            /\ CycleReturn
            /\ UNCHANGED <<mi, attempts>>
  /\ UNCHANGED orchCalls

\* the current method returned error e: log a warning, remember e, go on
\* with the next method; after the last method return the aggregate error,
\* which checkAndShutdown logs at ERROR level before it returns
MethodFailed(e) ==
  /\ results' = Append(results, e)
  /\ lastErr' = e
  /\ IF mi < NumMethods
       THEN /\ mi' = mi + 1
            /\ attempts' = Append(attempts, methods[mi + 1])
            /\ pc' = MethodEntry(methods[mi + 1])
            /\ console' = console \o
                 <<Line("WARN", "Shutdown via " \o methods[mi] \o " failed"),
                   Line("INFO", "Attempting shutdown via " \o methods[mi + 1])>>
            /\ UNCHANGED <<orchRet, lastOrch, cancelled, cycles, ticksConsumed,
                           active, cycleKind, startupDone, keyAtStartup>>
       ELSE /\ orchRet' = AllFailed(lastErr')
            /\ lastOrch' = "failed"
            /\ console' = console \o
                 <<Line("WARN", "Shutdown via " \o methods[mi] \o " failed"),
                   Line("ERROR", "Failed to initiate host shutdown")>>
            /\ CycleReturn
            /\ UNCHANGED <<mi, attempts>>
  /\ UNCHANGED orchCalls

(* ------------------------------------------------------ shutdownViaNsenter *)

\* a variant of shutdownViaNsenter that runs the command a second time
\* when it failed
shutdownViaNsenterRetries(ok) ==
  /\ pc = "nsenter_cmd"
  /\ cmds' = Append(cmds, <<"nsenter poweroff", ok>>)
  /\ IF ok THEN MethodSucceeded
     ELSE IF cmds = <<>>
       THEN UNCHANGED <<loopVars, orchVars, console>>
       ELSE MethodFailed(ErrNsenter)
  /\ UNCHANGED <<envVars, checkVars, written>>

\* nsenter --target 1 ... -- poweroff returns; ok is its exit status
shutdownViaNsenter(ok) ==
  /\ pc = "nsenter_cmd"
  /\ cmds' = Append(cmds, <<"nsenter poweroff", ok>>)
  /\ IF ok THEN MethodSucceeded ELSE MethodFailed(ErrNsenter)
  /\ UNCHANGED <<envVars, checkVars, written>>

(* -------------------------------------------------------- shutdownViaSysrq *)

\* a variant of shutdownViaSysrq without the os.Stat check
SysrqNoStatCheck ==
  /\ pc = "sysrq_stat"
  /\ ~hostProcMounted
  /\ pc' = "sysrq_s"
  /\ UNCHANGED <<envVars, cancelled, cycles, ticksConsumed, active, cycleKind,
                 startupDone, keyAtStartup, checkVars, orchVars, sideVars>>

\* os.Stat(hostProcPath) reports that the path does not exist
SysrqNotMounted ==
  /\ pc = "sysrq_stat"
  /\ ~hostProcMounted
  /\ MethodFailed(ErrNotMounted)
  /\ UNCHANGED <<envVars, checkVars, cmds, written>>

\* os.Stat(hostProcPath) reports anything else: go on to the writes
SysrqMounted ==
  /\ pc = "sysrq_stat"
  /\ hostProcMounted
  /\ pc' = "sysrq_s"
  /\ UNCHANGED <<envVars, cancelled, cycles, ticksConsumed, active, cycleKind,
                 startupDone, keyAtStartup, checkVars, orchVars, sideVars>>

\* a variant of the writes of 's' and 'u' that returns the error of a
\* failed write instead of going on
SysrqWriteAborts(code, next, ok, message) ==
  /\ written' = Append(written, <<code, ok>>)
  /\ IF ok
       THEN /\ pc' = next
            /\ UNCHANGED <<cancelled, cycles, ticksConsumed, active, cycleKind,
                           startupDone, keyAtStartup, orchVars, console>>
       ELSE MethodFailed(ErrSysrqWrite)
  /\ UNCHANGED <<envVars, checkVars, cmds>>

\* write 's' (sync) and then 'u' (remount read-only): a failure is logged
\* as a warning and the method goes on
SysrqWrite(code, next, ok, message) ==
  /\ written' = Append(written, <<code, ok>>)
  /\ console' = IF ok THEN console
                      ELSE Append(console, Line("WARN", message))
  /\ pc' = next
  /\ UNCHANGED <<envVars, cancelled, cycles, ticksConsumed, active, cycleKind,
                 startupDone, keyAtStartup, checkVars, orchVars, cmds>>

SysrqSync(ok) ==
  /\ pc = "sysrq_s"
  /\ SysrqWrite("s", "sysrq_u", ok, "Failed to sync filesystems via sysrq")

SysrqRemount(ok) ==
  /\ pc = "sysrq_u"
  /\ SysrqWrite("u", "sysrq_o", ok,
                "Failed to remount filesystems read-only via sysrq")

\* write 'o' (power off): its outcome is the method's outcome
SysrqPoweroff(ok) ==
  /\ pc = "sysrq_o"
  /\ written' = Append(written, <<"o", ok>>)
  /\ IF ok THEN MethodSucceeded ELSE MethodFailed(ErrSysrqWrite)
  /\ UNCHANGED <<envVars, checkVars, cmds>>

(* ------------------------------------------------------- shutdownViaDirect *)

\* a variant of shutdownViaDirect that returns the error of poweroff
\* without trying the fallback
DirectPoweroffNoFallback(ok) ==
  /\ pc = "direct_poweroff"
  /\ cmds' = Append(cmds, <<"poweroff", ok>>)
  /\ IF ok THEN MethodSucceeded ELSE MethodFailed(ErrDirect)
  /\ UNCHANGED <<envVars, checkVars, written>>

\* poweroff returns: on success the method returns nil, otherwise it runs
\* the fallback
DirectPoweroff(ok) ==
  /\ pc = "direct_poweroff"
  /\ cmds' = Append(cmds, <<"poweroff", ok>>)
  /\ IF ok
       THEN MethodSucceeded
       ELSE /\ pc' = "direct_fallback"
            /\ UNCHANGED <<cancelled, cycles, ticksConsumed, active, cycleKind,
                           startupDone, keyAtStartup, orchVars, console>>
  /\ UNCHANGED <<envVars, checkVars, written>>

\* shutdown -h now returns
DirectFallback(ok) ==
  /\ pc = "direct_fallback"
  /\ cmds' = Append(cmds, <<"shutdown -h now", ok>>)
  /\ IF ok THEN MethodSucceeded ELSE MethodFailed(ErrDirect)
  /\ UNCHANGED <<envVars, checkVars, written>>

(* --------------------------------------------------------- specification *)

\* the steps of Client.CheckAndDeleteKey and of its caller's branches
CheckAndDeleteKey ==
  \/ GetNil
  \/ GetErr
  \/ GetValue
  \/ DelErr
  \/ DelOk

\* the steps of Manager.shutdownViaSysrq
shutdownViaSysrq ==
  \/ SysrqNotMounted
  \/ SysrqMounted
  \/ \E ok \in BOOLEAN : SysrqSync(ok)
  \/ \E ok \in BOOLEAN : SysrqRemount(ok)
  \/ \E ok \in BOOLEAN : SysrqPoweroff(ok)

\* the steps of Manager.shutdownViaDirect
shutdownViaDirect ==
  \/ \E ok \in BOOLEAN : DirectPoweroff(ok)
  \/ \E ok \in BOOLEAN : DirectFallback(ok)

\* the steps of Manager.NeutralizeStuartLittle: its methods, in table order
NeutralizeStuartLittle ==
  \/ \E ok \in BOOLEAN : shutdownViaNsenter(ok)
  \/ shutdownViaSysrq
  \/ shutdownViaDirect

\* the steps of main outside checkAndShutdown
main ==
  \/ NewClientFail
  \/ NewTickerPanics
  \/ NewClientOk
  \/ SelectTick
  \/ SelectSig

Next ==
  \/ ExternalWrite
  \/ TimerFire
  \/ SignalArrive
  \/ main
  \/ CheckAndDeleteKey
  \/ NeutralizeStuartLittle

Spec == Init /\ [][Next]_vars

\* the agent with other clients that delete the key
NextMulti ==
  \/ Next
  \/ OtherClientDel

SpecMulti == Init /\ [][NextMulti]_vars

(* -------------------------------------------------------------- liveness *)

\* The specifications of this section let the loop run for ever: the
\* ticks and the cycles after the initial check are not counted, and
\* ticksFired, ticksConsumed and cycles keep the value they have when the
\* loop is entered.

\* Init with an interval that NewTicker accepts
InitLive ==
  /\ Init
  /\ CheckInterval > 0

\* the ticker fires
TickFires ==
  /\ Running
  /\ tickPending' = TRUE
  /\ UNCHANGED <<store, writes, hostProcMounted, CheckInterval, cfgVars,
                 logVars, sigPending, sigWhileIdle, ticksFired, loopVars,
                 checkVars, orchVars, sideVars>>

\* case <-ticker.C: run one check
TickBranch ==
  /\ AtSelect
  /\ tickPending
  /\ tickPending' = FALSE
  /\ EnterCycle("tick")
  /\ UNCHANGED <<store, writes, hostProcMounted, CheckInterval, cfgVars,
                 logVars, sigPending, sigWhileIdle, ticksFired, cancelled,
                 cycles, ticksConsumed, startupDone, keyAtStartup>>

\* the steps of a cycle whose store operations succeed
CycleStepOk ==
  \/ GetNil
  \/ GetValue
  \/ DelOk
  \/ NeutralizeStuartLittle

\* the agent alone on the store, with store operations that succeed and
\* without termination signal
NextLive ==
  \/ ExternalWrite
  \/ TickFires
  \/ NewClientOk
  \/ TickBranch
  \/ CycleStepOk

\* the ticker keeps firing, the select takes a tick that is ready, and
\* every call that a cycle makes returns
SpecLive ==
  /\ InitLive
  /\ [][NextLive]_vars
  /\ WF_vars(NewClientOk)
  /\ WF_vars(TickFires)
  /\ WF_vars(TickBranch)
  /\ WF_vars(CycleStepOk)

\* a variant of SelectSig that leaves the signal while a tick is ready
SelectSigAfterTicks ==
  /\ ~tickPending
  /\ SelectSig

\* the signal branch of the select
SignalBranch == SelectSig

\* the steps of a cycle
CycleStep ==
  \/ CheckAndDeleteKey
  \/ NeutralizeStuartLittle

\* the agent with termination signals
NextSignal ==
  \/ ExternalWrite
  \/ TickFires
  \/ SignalArrive
  \/ NewClientOk
  \/ TickBranch
  \/ SignalBranch
  \/ CycleStep

\* every call that a cycle makes returns, and the select, which chooses
\* at random among the branches that are ready, does not leave the
\* signal branch out for ever
SpecSignal ==
  /\ InitLive
  /\ [][NextSignal]_vars
  /\ WF_vars(NewClientOk)
  /\ WF_vars(CycleStep)
  /\ SF_vars(SignalBranch)

(* ---------------------------------------------------------------- claims *)

Detected == CheckRet(TRUE, ErrNil)
NotDetected == CheckRet(FALSE, ErrNil)

\* C1: first success wins.  Whenever a method of the run has returned nil,
\* it is the last method invoked in the run, every method before it
\* failed, the methods invoked are the first k of the table in table order,
\* and NeutralizeStuartLittle has returned nil; and it returns nil in no
\* other case.
C1_FirstSuccessWins ==
  /\ \A k \in 1..Len(results) :
       results[k] = ErrNil =>
         /\ Len(attempts) = k
         /\ Len(results) = k
         /\ \A i \in 1..(k - 1) : results[i] # ErrNil
         /\ \A i \in 1..k : attempts[i] = methods[i]
         /\ orchRet = OrchNil
  /\ orchRet = OrchNil =>
       /\ Len(results) >= 1
       /\ results[Len(results)] = ErrNil

\* C1 witness: the second method succeeded after the first failed, the run
\* returned nil and the third method was not invoked
C1_Witness ==
  /\ orchRet = OrchNil
  /\ attempts = <<"nsenter", "sysrq-trigger">>
  /\ results = <<ErrNsenter, ErrNil>>

\* C2: all methods fail.  When every method of the table has failed, each
\* was invoked exactly once, in table order, and NeutralizeStuartLittle
\* returns the aggregate error wrapping the error of the last method; it
\* returns an error in no other case.
C2_AllFailWrapsLast ==
  /\ (Len(results) = NumMethods /\ \A i \in 1..NumMethods : results[i] # ErrNil)
       => /\ attempts = methods
          /\ orchRet = AllFailed(results[NumMethods])
          /\ orchRet.wraps \in {ErrDirect}
  /\ orchRet \notin {OrchUnset, OrchNil}
       => /\ orchRet.msg = "all shutdown methods failed"
          /\ Len(results) = NumMethods
          /\ \A i \in 1..NumMethods : results[i] # ErrNil

\* C2 witness: the three methods failed with three different errors
C2_Witness ==
  /\ results = <<ErrNsenter, ErrNotMounted, ErrDirect>>
  /\ orchRet = AllFailed(ErrDirect)
  /\ attempts = methods

\* C3: check-and-clear consumes the trigger.  A check whose GET found the
\* key and whose DEL succeeded returns (true, nil) and leaves the store
\* without the key; the check that follows a detection with no external
\* write in between, once its GET is answered, returns (false, nil).
C3_CheckAndClear ==
  [][/\ (pc = "del" /\ delRes' = "ok")
          => (checkRet' = Detected /\ store # None /\ store' = None)
     /\ (pc = "get" /\ getRes' \in {"nil", "value"}
           /\ checkRet = Detected /\ ~wroteSinceDetect)
          => (getRes' = "nil" /\ checkRet' = NotDetected /\ store' = None
                /\ pc' = "wait")
    ]_vars

\* C3 witness: a check returned (true, nil) and the next one (false, nil),
\* with no external write after the detection
C3_Witness ==
  /\ prevCheckRet = Detected
  /\ checkRet = NotDetected
  /\ ~wroteSinceDetect
  /\ store = None

\* C4: key absent.  A check whose GET is answered while the store holds
\* no key returns (false, nil), issues the GET and nothing else, and
\* leaves the store as it was.
C4_AbsentNoDelete ==
  [][(pc = "get" /\ store = None /\ getRes' \in {"nil", "value"})
       => /\ checkRet' = NotDetected
          /\ ops' = <<"GET">>
          /\ delRes' = "none"
          /\ store' = store
          /\ pc' = "wait"
    ]_vars

\* C4 witness: a check on an empty store has returned (false, nil) after
\* one GET
C4_Witness ==
  /\ pc = "wait"
  /\ getRes = "nil"
  /\ checkRet = NotDetected
  /\ ops = <<"GET">>
  /\ store = None

C6_OrchestratorOncePerDetection ==
  pc \in (InCycle \ {"get", "del"}) \cup {"wait", "exit0"} =>
    orchCalls = (IF checkRet = Detected THEN 1 ELSE 0)

\* C6 witness: a cycle that detected the key has ended with one call
C6_Witness ==
  /\ pc = "wait"
  /\ checkRet = Detected
  /\ orchCalls = 1
  /\ orchRet # OrchUnset

\* the first check of main has returned and no tick was consumed before it
StartupCheckFirst ==
  (ticksConsumed > 0 \/ cycleKind = "tick" \/ pc \in {"wait", "exit0"})
    => startupDone

\* the state right after the first check: it has returned and nothing else
\* has run
AfterStartupCheck == startupDone /\ cycles = 1

\* C7 as claimed: the first check runs before any tick is consumed, and
\* if the key was in the store at startup NeutralizeStuartLittle is called
\* in that first cycle.
C7_AsClaimed ==
  /\ StartupCheckFirst
  /\ (AfterStartupCheck /\ keyAtStartup) => orchCalls = 1

\* C7 amended: the first check runs before any tick is consumed, and if
\* the key was in the store at startup and the GET and the DEL of that
\* check succeed, NeutralizeStuartLittle is called in that first cycle,
\* with no tick consumed.
C7_StartupCycle ==
  /\ StartupCheckFirst
  /\ (AfterStartupCheck /\ keyAtStartup /\ checkRet.err = ErrNil)
       => (orchCalls = 1 /\ checkRet = Detected /\ ticksConsumed = 0)

\* C7 witness: the key was there at startup and the first cycle has called
\* NeutralizeStuartLittle before any tick was consumed
C7_Witness ==
  /\ AfterStartupCheck
  /\ keyAtStartup
  /\ orchCalls = 1
  /\ ticksConsumed = 0
  /\ pc = "wait"

\* C8 as claimed: once a signal has arrived while the loop was at the
\* select with no check running, no further check starts, whether or not
\* a tick is pending too.
C8_AsClaimed ==
  [][(pc = "wait" /\ sigPending /\ sigWhileIdle) => cycles' = cycles]_vars

\* C8 amended: with a signal pending at the select and no tick pending,
\* the next step of the loop is the termination branch: it cancels the
\* context and returns, and no check starts then or afterwards.  (With a
\* tick pending too, select may take either branch.)
C8_ExitOnSignal ==
  [][/\ (pc = "wait" /\ sigPending /\ ~tickPending)
          => /\ cycles' = cycles
             /\ pc' # pc => (pc' = "exit0" /\ cancelled')
     /\ pc = "exit0" => (pc' = "exit0" /\ cycles' = cycles)
    ]_vars

\* C8 witness: the loop has returned on a signal with no tick pending
C8_Witness ==
  /\ pc = "exit0"
  /\ startupDone
  /\ cancelled
  /\ ~tickPending
  /\ ticksConsumed = 0
  /\ cycles = 1

\* C9: the loop leaves the Running state only by the signal branch of the
\* select, and every return of checkAndShutdown, whatever the outcome of
\* the check or of the shutdown, leads back to the select.
C9_OnlySignalEndsRunning ==
  [][/\ (Running /\ ~Running')
          => (pc = "wait" /\ sigPending /\ pc' = "exit0")
     /\ active' < active => pc' = "wait"
    ]_vars

\* C9 witness: the loop is back at the select after a run in which every
\* shutdown method failed
C9_Witness ==
  /\ pc = "wait"
  /\ orchRet = AllFailed(ErrDirect)
  /\ active = 0

\* C10: at most one call of checkAndShutdown is active, and one is active
\* exactly while a store operation or a shutdown method is executing.
C10_OneCycleAtATime ==
  /\ active <= 1
  /\ active = 1 <=> pc \in InCycle

\* C10 witness: a tick is pending while the last write of the sysrq method
\* of the first cycle is executing, and no second cycle has started
C10_Witness ==
  /\ pc = "sysrq_o"
  /\ tickPending
  /\ active = 1
  /\ cycles = 1

\* ticks waiting in ticker.C
PendingTicks == IF tickPending THEN 1 ELSE 0

\* cycles started by the call of main line 69
StartupCycles == IF cycles > 0 THEN 1 ELSE 0

\* C11 as claimed: every tick fired while the loop is Running has started
\* a cycle of its own or is the one waiting to start it (none is skipped
\* or merged), and every cycle but the startup one was started by a tick.
C11_AsClaimed ==
  /\ ticksFired = ticksConsumed + PendingTicks
  /\ cycles = ticksConsumed + StartupCycles

\* C11 amended: every tick the loop receives at its select starts exactly
\* one cycle and leaves the ticker channel empty, every cycle but the
\* startup one is started by a received tick, and a fired tick is left
\* waiting in the channel; the ticks fired while one is already waiting
\* are dropped, so the received ticks never outnumber the fired ones.
C11_TickStartsOneCycle ==
  [][/\ ticksConsumed' # ticksConsumed
          => /\ ticksConsumed' = ticksConsumed + 1
             /\ pc = "wait" /\ tickPending /\ ~tickPending'
             /\ cycles' = cycles + 1
             /\ cycleKind' = "tick"
     /\ cycles' # cycles
          => /\ cycles' = cycles + 1
             /\ \/ ticksConsumed' = ticksConsumed + 1
                \/ cycles = 0 /\ cycleKind' = "startup"
     /\ ticksFired' # ticksFired
          => (Running /\ ticksFired' = ticksFired + 1 /\ tickPending')
     /\ cycles' = ticksConsumed' + (IF cycles' > 0 THEN 1 ELSE 0)
     /\ ticksConsumed' + (IF tickPending' THEN 1 ELSE 0) <= ticksFired'
    ]_vars

\* C11 witness: two ticks fired during the startup cycle, the second was
\* dropped, and the one received tick has started one cycle, now finished
C11_Witness ==
  /\ pc = "wait"
  /\ ticksFired = 2
  /\ ticksConsumed = 1
  /\ ~tickPending
  /\ cycles = 2
  /\ cycleKind = "tick"

\* C12: the return of a run in which every method failed leaves the loop
\* Running at its select with the store as the run found it; the next
\* cycle begins with a GET; and a run starts only from the successful DEL
\* of a check whose GET found the key, after an external write that no
\* earlier detection has consumed: a failed run is never started again
\* for the key that triggered it.
C12_NoRetryAfterFailure ==
  [][/\ (orchRet = OrchUnset /\ orchRet' \notin {OrchUnset, OrchNil})
          => (pc' = "wait" /\ Running' /\ store' = store)
     /\ (lastOrch = "failed" /\ cycles' # cycles)
          => (pc = "wait" /\ pc' = "get" /\ ops' = <<"GET">>
              /\ orchCalls' = 0)
     /\ orchCalls' > orchCalls
          => /\ pc = "del" /\ delRes' = "ok"
             /\ result # None
             /\ wroteSinceDetect /\ ~wroteSinceDetect'
             /\ orchCalls' = 1
     /\ (mi' # mi /\ mi' = 1) => orchCalls' > orchCalls
    ]_vars

\* C12 witness: after a run in which every method failed, a tick has
\* started a cycle whose check found no key, and no run was started
C12_Witness ==
  /\ lastOrch = "failed"
  /\ pc = "wait"
  /\ cycleKind = "tick"
  /\ checkRet = NotDetected
  /\ prevCheckRet = Detected
  /\ ~wroteSinceDetect
  /\ orchCalls = 0
  /\ orchRet = OrchUnset

\* C13: the methods of a run are invoked in the fixed order nsenter,
\* sysrq-trigger, direct-command, none twice and none skipped; the sysrq
\* method is entered, and writes to the trigger file, only after the
\* nsenter command has run and failed; the direct method is entered, and
\* runs its commands, only after nsenter and then sysrq have failed.
C13_FixedPriorityOrder ==
  /\ Len(attempts) = mi
  /\ Len(attempts) <= 3
  /\ \A i \in 1..Len(attempts) :
        attempts[i] = <<"nsenter", "sysrq-trigger", "direct-command">>[i]
  /\ Len(results) \in {Len(attempts), Len(attempts) - 1}
  /\ (pc \in {"sysrq_stat", "sysrq_s", "sysrq_u", "sysrq_o"}
        \/ written # <<>> \/ Len(attempts) >= 2)
       => /\ attempts[2] = "sysrq-trigger"
          /\ results[1] = ErrNsenter
          /\ cmds # <<>> /\ cmds[1] = <<"nsenter poweroff", FALSE>>
  /\ (pc \in {"direct_poweroff", "direct_fallback"}
        \/ Len(cmds) >= 2 \/ Len(attempts) >= 3)
       => /\ attempts[3] = "direct-command"
          /\ results[1] = ErrNsenter
          /\ results[2] \in {ErrNotMounted, ErrSysrqWrite}
          /\ cmds[1] = <<"nsenter poweroff", FALSE>>

\* C13 witness: the direct method is running after nsenter failed and the
\* sysrq method wrote to the trigger file and failed
C13_Witness ==
  /\ pc = "direct_poweroff"
  /\ attempts = <<"nsenter", "sysrq-trigger", "direct-command">>
  /\ results = <<ErrNsenter, ErrSysrqWrite>>
  /\ Len(written) = 3

\* C14: the sysrq method writes to the trigger file only when the host
\* proc path exists, and then it writes 's', 'u' and 'o' in that order,
\* each once, going on to the next write whether or not the one before
\* failed; when the method has returned all three writes were attempted,
\* and it returned nil exactly when the write of 'o' succeeded.
C14_SysrqWriteSequence ==
  /\ Len(written) <= 3
  /\ \A i \in 1..Len(written) : written[i][1] = <<"s", "u", "o">>[i]
  /\ written # <<>> => hostProcMounted
  /\ pc = "sysrq_s" => Len(written) = 0
  /\ pc = "sysrq_u" => Len(written) = 1
  /\ pc = "sysrq_o" => Len(written) = 2
  /\ (hostProcMounted /\ Len(results) >= 2)
       => /\ Len(written) = 3
          /\ results[2] = ErrNil <=> written[3][2]
          /\ results[2] \in {ErrNil, ErrSysrqWrite}

\* C14 witness: the writes of 's' and 'u' failed, the write of 'o'
\* succeeded, and the sysrq method returned nil
C14_Witness ==
  /\ hostProcMounted
  /\ written = << <<"s", FALSE>>, <<"u", FALSE>>, <<"o", TRUE>> >>
  /\ results = <<ErrNsenter, ErrNil>>
  /\ orchRet = OrchNil

\* C15: when the host proc path does not exist the sysrq method returns
\* the error 'host proc path not mounted' from its os.Stat check, with no
\* write to the trigger file attempted, and the run goes on with the
\* direct method; the method returns that error in no other case.
C15_NotMountedFailsFast ==
  /\ ~hostProcMounted
       => /\ written = <<>>
          /\ pc \notin {"sysrq_s", "sysrq_u", "sysrq_o"}
          /\ Len(results) >= 2
               => /\ results[2] = "host proc path not mounted"
                  /\ Len(attempts) = 3
                  /\ attempts[3] = "direct-command"
                  /\ \/ pc \in {"direct_poweroff", "direct_fallback"}
                     \/ Len(results) = 3 /\ pc = "wait"
                     \/ pc = "exit0"
  /\ \A i \in 1..Len(results) :
        results[i] = ErrNotMounted => (i = 2 /\ ~hostProcMounted)

\* C15 witness: the sysrq method failed on its os.Stat check, nothing was
\* written, and the direct method is running
C15_Witness ==
  /\ ~hostProcMounted
  /\ pc = "direct_poweroff"
  /\ results = <<ErrNsenter, ErrNotMounted>>
  /\ written = <<>>
  /\ cmds = << <<"nsenter poweroff", FALSE>> >>

\* command name has run in this cycle
HasRun(name) == \E i \in 1..Len(cmds) : cmds[i][1] = name

\* command name has run in this cycle and exited with status 0
RanOk(name) == \E i \in 1..Len(cmds) : cmds[i] = <<name, TRUE>>

\* C16: the direct method runs 'poweroff' first and runs the fallback
\* 'shutdown -h now' exactly when 'poweroff' failed, each at most once;
\* when the method has returned, it returned nil exactly when one of the
\* two commands succeeded.
C16_DirectFallback ==
  /\ Len(cmds) <= 3
  /\ \A i, j \in 1..Len(cmds) : cmds[i][1] = cmds[j][1] => i = j
  /\ pc = "direct_poweroff" => ~HasRun("poweroff")
  /\ pc = "direct_fallback" <=>
       (HasRun("poweroff") /\ ~RanOk("poweroff") /\ ~HasRun("shutdown -h now"))
  /\ HasRun("shutdown -h now")
       => /\ HasRun("poweroff") /\ ~RanOk("poweroff")
          /\ cmds[Len(cmds)][1] = "shutdown -h now"
  /\ Len(results) = 3
       => /\ HasRun("poweroff")
          /\ HasRun("shutdown -h now") <=> ~RanOk("poweroff")
          /\ results[3] = ErrNil
               <=> (RanOk("poweroff") \/ RanOk("shutdown -h now"))
          /\ results[3] \in {ErrNil, ErrDirect}

\* C16 witness: 'poweroff' failed, the fallback succeeded, and the direct
\* method returned nil
C16_Witness ==
  /\ cmds = << <<"nsenter poweroff", FALSE>>, <<"poweroff", FALSE>>,
              <<"shutdown -h now", TRUE>> >>
  /\ Len(results) = 3
  /\ results[3] = ErrNil
  /\ orchRet = OrchNil

\* the console lines of the cycle's run of NeutralizeStuartLittle: those
\* after checkAndShutdown's "Shutdown signal received!" and before the line
\* checkAndShutdown logs when the run has returned
RunLog ==
  IF orchCalls = 0 \/ ~Running
    THEN <<>>
    ELSE SubSeq(console, 2,
                Len(console) - (IF orchRet = OrchUnset THEN 0 ELSE 1))

IsWarn(l) == l[1] = "WARN"

\* the entries NeutralizeStuartLittle logs for its i-th method
AttemptEntry(i) == Line("INFO", "Attempting shutdown via " \o methods[i])
FailureEntry(i) == Line("WARN", "Shutdown via " \o methods[i] \o " failed")
SuccessEntry(i) ==
  Line("INFO", "Shutdown initiated successfully via " \o methods[i])

IsFailureEntry(l) == \E i \in 1..NumMethods : l = FailureEntry(i)
IsSuccessEntry(l) == \E i \in 1..NumMethods : l = SuccessEntry(i)
IsOtherWarn(l) == IsWarn(l) /\ ~IsFailureEntry(l)

\* the methods of the run that have returned an error
FailedMethods == {i \in 1..Len(results) : results[i] # ErrNil}

\* the writes of 's' and 'u' of the run that failed
FailedSyncWrites ==
  {i \in 1..Len(written) : written[i][1] \in {"s", "u"} /\ ~written[i][2]}

\* C17 as claimed: the run's log holds exactly one warning-level entry for
\* each method that has failed, and exactly two when the first two
\* methods failed and the third succeeded.
C17_AsClaimed ==
  /\ Len(SelectSeq(RunLog, IsWarn)) = Cardinality(FailedMethods)
  /\ (Running /\ Len(results) = 3 /\ results[3] = ErrNil)
       => Len(SelectSeq(RunLog, IsWarn)) = 2

\* C17 amended: the run's log holds exactly one "Shutdown via <method>
\* failed" warning for each method that has failed, in priority order, each
\* directly followed by the "Attempting" entry of the next method, which
\* no method has without it; its only other warnings are those of the
\* failed writes of 's' and 'u' of the sysrq method, one for each; a
\* method that succeeded has one success entry, the last of the run, and
\* there is no success entry otherwise.  With the first two methods failed
\* and the third successful the failure warnings are those of nsenter and
\* of sysrq-trigger, in that order, and the success entry that of
\* direct-command.
C17_MethodLogOrder ==
  (Running /\ orchCalls > 0) =>
    LET rlog == RunLog
        fw == SelectSeq(rlog, IsFailureEntry)
        sc == SelectSeq(rlog, IsSuccessEntry)
    IN /\ console[1] = Line("INFO", "Shutdown signal received!")
       /\ rlog[1] = Line("INFO", "Initiating host machine shutdown...")
       /\ rlog[2] = AttemptEntry(1)
       /\ Len(fw) = Cardinality(FailedMethods)
       /\ \A k \in 1..Len(fw) : fw[k] = FailureEntry(k) /\ k \in FailedMethods
       /\ \A k \in 1..Len(rlog) : \A i \in 1..(NumMethods - 1) :
            /\ rlog[k] = FailureEntry(i)
                 => (k < Len(rlog) /\ rlog[k + 1] = AttemptEntry(i + 1))
            /\ rlog[k] = AttemptEntry(i + 1)
                 => (k > 1 /\ rlog[k - 1] = FailureEntry(i))
       /\ Len(SelectSeq(rlog, IsOtherWarn)) = Cardinality(FailedSyncWrites)
       /\ IF \E i \in 1..Len(results) : results[i] = ErrNil
            THEN /\ sc = <<SuccessEntry(Len(results))>>
                 /\ rlog[Len(rlog)] = SuccessEntry(Len(results))
                 /\ results[Len(results)] = ErrNil
                 /\ console[Len(console)]
                      = Line("INFO", "Host shutdown initiated successfully")
            ELSE sc = <<>>
       /\ (Len(results) = 3 /\ results[3] = ErrNil)
            => /\ fw = <<Line("WARN", "Shutdown via nsenter failed"),
                         Line("WARN", "Shutdown via sysrq-trigger failed")>>
               /\ rlog[Len(rlog)] = Line("INFO",
                    "Shutdown initiated successfully via direct-command")

\* C17 witness: nsenter failed, the sysrq method failed after its writes
\* of 's' and 'u' had failed too, the direct method succeeded, and the
\* run's rlog holds four warnings
C17_Witness ==
  /\ pc = "wait"
  /\ Len(results) = 3
  /\ results[3] = ErrNil
  /\ written = << <<"s", FALSE>>, <<"u", FALSE>>, <<"o", FALSE>> >>
  /\ Len(SelectSeq(RunLog, IsWarn)) = 4
  /\ RunLog[Len(RunLog)] = SuccessEntry(3)

\* C18: the process has exited with status 1 only from the failed
\* connection, with no check started and NeutralizeStuartLittle not
\* called; it has exited with status 0 only from the signal branch of the
\* select; and it has ended in no other way.
C18_ProcessBoundary ==
  /\ pc = "exit1"
       => /\ cycles = 0 /\ orchCalls = 0 /\ ops = <<>>
          /\ console = <<Line("ERROR", "Failed to connect to Redis")>>
  /\ pc = "exit0"
       => /\ cancelled
          /\ console[1] = Line("INFO", "Received shutdown signal")
  /\ pc \in {"connect", "exit0", "exit1"} \/ Running

\* C19: what a check returns, the store operations it issues and whether
\* NeutralizeStuartLittle is called are determined by whether the key is
\* in the store and by whether the GET and the DEL succeed, the same for
\* every value stored under the key: a GET that finds the key, whatever
\* its value, is followed by the DEL, and a DEL that succeeds by the return
\* of (true, nil) and one run of NeutralizeStuartLittle.
C19_ValueOpaque ==
  [][/\ (pc = "get" /\ pc' # "get")
          => \/ /\ getRes' = "error"
                /\ checkRet' = CheckRet(FALSE, ErrGet)
                /\ ops' = <<"GET">> /\ orchCalls' = 0
                /\ pc' = "wait" /\ store' = store
             \/ /\ getRes' = "nil" /\ store = None
                /\ checkRet' = NotDetected
                /\ ops' = <<"GET">> /\ orchCalls' = 0
                /\ pc' = "wait" /\ store' = store
             \/ /\ getRes' = "value" /\ store \in Values
                /\ checkRet' = checkRet
                /\ ops' = <<"GET", "DEL">> /\ orchCalls' = 0
                /\ pc' = "del" /\ store' = store
     /\ (pc = "del" /\ pc' # "del")
          => \/ /\ delRes' = "error"
                /\ checkRet' = CheckRet(FALSE, ErrDel)
                /\ ops' = <<"GET", "DEL">> /\ orchCalls' = 0
                /\ pc' = "wait" /\ store' = store
             \/ /\ delRes' = "ok"
                /\ checkRet' = Detected
                /\ ops' = <<"GET", "DEL">> /\ orchCalls' = 1
                /\ pc' = "nsenter_cmd" /\ store' = None
     /\ \A i \in 1..Len(console') : console'[i][2] \notin Values
    ]_vars

\* C19 witness: a key whose value is not "shutdown" was found and deleted,
\* and NeutralizeStuartLittle was called
C19_Witness ==
  /\ result = "test"
  /\ ops = <<"GET", "DEL">>
  /\ checkRet = Detected
  /\ orchCalls = 1
  /\ pc = "nsenter_cmd"

\* the call of CheckAndDeleteKey of the current cycle has returned
CheckReturned == getRes \in {"nil", "error"} \/ delRes \in {"ok", "error"}

\* C20: when the call of the current cycle has returned, it returned true
\* exactly when its GET found the key and its own DEL removed it, whatever
\* the external writer and the other clients did meanwhile.
C20_DeletedByThisCall ==
  CheckReturned =>
    (checkRet.found <=> (getRes = "value" /\ delRes = "ok" /\ delRemoved = 1))

\* a string that is a decimal integer: an optional sign and one digit or
\* more
IsInteger(s) ==
  LET body == IF s # <<>> /\ s[1] \in {"+", "-"} THEN Tail(s) ELSE s
  IN body # <<>> /\ \A i \in 1..Len(body) : IsDigit(body[i])

\* the integer that such a string denotes, whatever its size
Denotes(s) ==
  LET body == IF s[1] \in {"+", "-"} THEN Tail(s) ELSE s
      mag == StripZeros([i \in 1..Len(body) |-> DigitOf(body[i])])
  IN [neg |-> s[1] = "-" /\ mag # <<>>, mag |-> mag]

Sixty == [neg |-> FALSE, mag |-> <<6, 0>>]

\* C26 as claimed: Load returns a Config whose CheckInterval is 60 seconds
\* when SIGNALMICE_CHECK_INTERVAL is not set, n seconds when it is set to
\* the integer n, and 0 when it is set to anything else.
C26_AsClaimed ==
  cfg.loaded =>
    LET v == environ.interval
    IN cfg.CheckInterval =
         IF ~v.exists THEN Nanoseconds(Sixty)
         ELSE IF IsInteger(v.value) THEN Nanoseconds(Denotes(v.value))
         ELSE Nanoseconds(Zero)

\* C26 amended: Load returns a Config whose CheckInterval is 60 seconds
\* when the variable is not set, 0 when it is set to a string that is not
\* a decimal integer, and n seconds when it is set to an integer n of at
\* most 9223372036 in absolute value; for a larger n the multiplication
\* by time.Second has overflowed and CheckInterval is not n seconds.
C26_LoadInterval ==
  cfg.loaded =>
    LET v == environ.interval
    IN IF ~v.exists THEN cfg.CheckInterval = Nanoseconds(Sixty)
       ELSE IF ~IsInteger(v.value) THEN cfg.CheckInterval = Nanoseconds(Zero)
       ELSE IF MagLeq(Denotes(v.value).mag, MaxSecondsMag)
         THEN cfg.CheckInterval = Nanoseconds(Denotes(v.value))
         ELSE cfg.CheckInterval.wrapped

\* C26 witness: Load has returned 9223372036 seconds, the largest interval
\* that fits, for the variable set to that number
C26_Witness ==
  /\ cfg.loaded
  /\ environ.interval.exists
  /\ IsInteger(environ.interval.value)
  /\ Denotes(environ.interval.value).mag = MaxSecondsMag
  /\ ~cfg.CheckInterval.wrapped
  /\ cfg.CheckInterval.mag = MaxSecondsMag \o SecondZeros

\* C27 as claimed: getEnvBool returns the default when the variable is not
\* set or is set to the empty string, and otherwise whether the value is
\* one of "true", "1", "yes".
C27_AsClaimed ==
  boolRet.returned =>
    boolRet.value =
      IF ~environ.daily.exists \/ environ.daily.value = ""
        THEN boolDefault
        ELSE environ.daily.value \in {"true", "1", "yes"}

\* the console line of the i-th call of a method of the Logger
CallLine(i) == Line(LevelOf(calls[i][1]), calls[i][2])

\* C21: every call of log appends exactly one line to the console, with
\* or without a client; a delivery is started or made only by a Logger
\* that got its client from NewLogger; and NewLogger returns a Logger
\* without client, not an error, when the sink cannot be reached.
C21_ConsoleAlways ==
  /\ [](/\ (inflight # {} \/ deliveries # {}) => client = "client"
        /\ (sink = "unreachable" /\ pc # "newlogger")
             => (pc # "fatal" /\ client = "nil"))
  /\ [][calls' # calls =>
         /\ Len(calls') = Len(calls) + 1
         /\ Len(console') = Len(console) + 1
         /\ (inflight' # inflight) = (client = "client")]_vars

\* C21 witness: a Logger built with the sink out of reach has logged
\* twice, on the console only
C21_Witness ==
  /\ sink = "unreachable"
  /\ client = "nil"
  /\ Len(calls) = 2
  /\ console = <<CouldNotConnect, CallLine(1), CallLine(2)>>
  /\ inflight = {}
  /\ deliveries = {}

\* C22: each entry is delivered at most once; a delivery that fails adds
\* one ERROR line to the console and ends its goroutine, and changes
\* neither the position of main's goroutine nor a result of the check, of
\* a method or of NeutralizeStuartLittle.
C22_DeliveryFailureLocal ==
  /\ [](\A d \in deliveries : d.attempt = 1)
  /\ [][deliveries' # deliveries =>
         /\ UNCHANGED <<pc, cancelled, calls, agentVars>>
         /\ \E g \in inflight :
              /\ inflight' = inflight \ {g}
              /\ \E d \in deliveries' \ deliveries :
                   /\ deliveries' = deliveries \cup {d}
                   /\ d.id = g.id
                   /\ console' =
                        CASE d.outcome = "ok" -> console
                          [] d.outcome = "err" ->
                               Append(console, FailedToSend)
                          [] d.outcome = "status" ->
                               Append(console, ReturnedError)]_vars

\* C22 witness: a delivery has failed and main's goroutine goes on
C22_Witness ==
  /\ pc = "ready"
  /\ \E d \in deliveries : d.outcome = "err"
  /\ console[Len(console)] = FailedToSend
  /\ Len(calls) < MaxLogCalls

\* C24 as claimed: every entry is indexed under cfg.OpensearchIndex when
\* cfg.OpensearchUseDailyIndex is false, and under that name, "-" and the
\* UTC day when it is true.
C24_AsClaimed ==
  \A d \in deliveries :
    d.index = IF cfg.OpensearchUseDailyIndex
                THEN IndexName(<<cfg.OpensearchIndex, "-", Today>>)
                ELSE IndexName(<<cfg.OpensearchIndex>>)

\* the lines that the calls of the Logger's methods are to write, in order
CallLines == [i \in 1..Len(calls) |-> CallLine(i)]

\* a line that NewLogger or sendToOpensearch wrote
IsLoggerOwnLine(l) == l \in {CouldNotConnect, FailedToSend, ReturnedError}
IsCallerLine(l) == ~IsLoggerOwnLine(l)
IsAfterStartupLine(l) == l # CouldNotConnect

\* C25 as claimed: once the Logger is built, the console holds the lines
\* of the calls made so far, in the order of the calls, and nothing else.
C25_AsClaimed ==
  pc \in {"ready", "exit"} =>
    SelectSeq(console, IsAfterStartupLine) = CallLines

\* C25 amended: each call appends the line of its level and message to
\* the console in the step of the call, and the lines of the console
\* that are not the logger's own reports are the lines of the calls
\* made so far, in the order of the calls.
C25_ConsoleInCallOrder ==
  /\ [](pc \in {"ready", "exit"} =>
          SelectSeq(console, IsCallerLine) = CallLines)
  /\ [][calls' # calls =>
         /\ SubSeq(calls', 1, Len(calls)) = calls
         /\ console' = Append(console, Line(LevelOf(calls'[Len(calls')][1]),
                                            calls'[Len(calls')][2]))]_vars

\* C25 witness: two calls of different levels, and the report of the
\* failed delivery of the first between their lines
C25_Witness ==
  /\ Len(calls) = 2
  /\ calls[1][1] = "ErrorWithExtra"
  /\ calls[2][1] = "Debug"
  /\ console = <<CallLine(1), FailedToSend, CallLine(2)>>

\* the levels of the lines that the current cycle has logged
CycleLevels == {console[i][1] : i \in 1..Len(console)}

\* C23: a cycle whose GET finds no key logs one DEBUG line, no WARN and no
\* ERROR line, runs no shutdown method and is back at the select; and a
\* cycle has logged an ERROR line only if its CheckAndDeleteKey returned
\* an error or its NeutralizeStuartLittle did.
C23_AbsentKeySilent ==
  (Running /\ cycles >= 1) =>
    /\ getRes = "nil" =>
         /\ pc = "wait"
         /\ console = <<Line("DEBUG", "Redis key not found")>>
         /\ orchCalls = 0
         /\ cmds = <<>>
         /\ written = <<>>
    /\ "ERROR" \in CycleLevels =>
         \/ CheckReturned /\ checkRet.err \in {ErrGet, ErrDel}
         \/ orchCalls = 1 /\ orchRet = AllFailed(lastErr)

\* C23 witness: the second cycle has found no key and the loop waits for
\* the next tick
C23_Witness ==
  /\ pc = "wait"
  /\ cycles = 2
  /\ getRes = "nil"
  /\ CycleLevels = {"DEBUG"}
  /\ ~cancelled

\* C30: while a cycle is between its GET and its return the context is
\* not cancelled; a signal that is pending during the cycle stays pending
\* and the cycle takes its next step as it would without it; the signal
\* is received, and the context cancelled, only at the select with no
\* cycle running.
C30_SignalWaitsForCycle ==
  /\ [](pc \in InCycle => ~cancelled)
  /\ [][(pc \in InCycle /\ sigPending) =>
          /\ sigPending'
          /\ ~cancelled'
          /\ pc' \in InCycle \cup {"wait"}]_vars
  /\ [][(sigPending /\ ~sigPending') =>
          /\ pc = "wait"
          /\ active = 0
          /\ cancelled'
          /\ pc' = "exit0"]_vars

\* C30 witness: a signal that arrived during the cycle is pending while
\* the last shutdown command of the cycle runs
C30_Witness ==
  /\ pc = "direct_fallback"
  /\ sigPending
  /\ ~sigWhileIdle
  /\ ~cancelled

\* C28: an external write of the key is followed by a DEL of this agent
\* that removes the key and by the run of NeutralizeStuartLittle that the
\* same check starts, also when the write falls between the GET and the
\* DEL of a check.
C28_WriteLeadsToRun ==
  wroteSinceDetect ~> (~wroteSinceDetect /\ orchCalls = 1)

\* C28 witness: a write has replaced the value that the GET of the check
\* in progress read, and the DEL of that check is still to come
C28_Witness ==
  /\ pc = "del"
  /\ getRes = "value"
  /\ wroteSinceDetect
  /\ store # None
  /\ store # result

\* C29: a signal that reaches sigChan while the loop runs, at the select
\* or during a cycle, leads to the cancellation of the context and to
\* the return of main.
C29_SignalLeadsToExit ==
  sigPending ~> (pc = "exit0" /\ cancelled)

\* C29 witness: the loop is at the select with a signal that arrived
\* during the cycle and with a tick, both ready
C29_Witness ==
  /\ pc = "wait"
  /\ sigPending
  /\ ~sigWhileIdle
  /\ tickPending
  /\ startupDone
  /\ cycleKind = "tick"

\* C31: a run of NeutralizeStuartLittle is in the cycle that issued a GET
\* which found the key and then a DEL which succeeded, in that order, and
\* it starts in the step in which that DEL returns, with the key gone
\* from the store.
C31_ConsumeBeforeAct ==
  /\ [](orchCalls >= 1 =>
          /\ ops = <<"GET", "DEL">>
          /\ getRes = "value"
          /\ delRes = "ok"
          /\ checkRet = Detected)
  /\ [][orchCalls' > orchCalls =>
          /\ pc = "del"
          /\ orchCalls = 0
          /\ delRes = "none"
          /\ store' = None]_vars

\* C31 witness: the first method of a run is about to be invoked after
\* the DEL of the cycle removed the key
C31_Witness ==
  /\ orchCalls = 1
  /\ pc = "nsenter_cmd"
  /\ delRemoved = 1
  /\ store = None
  /\ cycleKind = "tick"

\* C32: a cycle whose GET fails with an error other than redis.Nil
\* issues no DEL, leaves the store as it is, returns (false, error), logs
\* one ERROR line, runs no shutdown method and returns to the select,
\* where the next tick starts the next check.
C32_GetErrorRetriedNextTick ==
  /\ []((getRes = "error" /\ pc # "exit0") =>
          /\ pc = "wait"
          /\ ops = <<"GET">>
          /\ delRes = "none"
          /\ checkRet = CheckRet(FALSE, ErrGet)
          /\ console = <<Line("ERROR", "Error checking Redis key")>>
          /\ orchCalls = 0
          /\ cmds = <<>>
          /\ written = <<>>
          /\ ((tickPending /\ cycles < MaxCycles) => ENABLED SelectTick))
  /\ [][(getRes # "error" /\ getRes' = "error") =>
          /\ store' = store
          /\ ~cancelled']_vars

\* C32 witness: the check of a tick begins after the check before it
\* failed on its GET, with the key still in the store
C32_Witness ==
  /\ pc = "get"
  /\ cycleKind = "tick"
  /\ getRes = "none"
  /\ checkRet = CheckRet(FALSE, ErrGet)
  /\ store # None

\* C33: the calls of CheckAndDeleteKey that returned (true, nil), each of
\* which started one run of NeutralizeStuartLittle, are at most as many
\* as the external writes of the key so far.
C33_NoDoubleProcessing ==
  /\ detections <= writes
  /\ (detections = writes /\ pc \in {"get", "wait"}) => store = None

\* C33 witness: two writes, each detected once
C33_Witness ==
  /\ writes = 2
  /\ detections = 2
  /\ pc = "wait"

\* the commands of shutdownViaNsenter that this cycle has run
NsenterCmds == SelectSeq(cmds, LAMBDA c : c[1] = "nsenter poweroff")

\* C34: shutdownViaNsenter runs one command, nsenter ... poweroff, and
\* returns in the step in which that command returns: nil when it exited
\* with status 0, its own error otherwise; no second command follows
\* inside the method.
C34_NsenterSingleCommand ==
  /\ Len(NsenterCmds) <= 1
  /\ pc = "nsenter_cmd" => (cmds = <<>> /\ results = <<>>)
  /\ cmds # <<>> =>
       /\ cmds[1][1] = "nsenter poweroff"
       /\ Len(results) >= 1
       /\ results[1] = (IF cmds[1][2] THEN ErrNil ELSE ErrNsenter)
       /\ cmds[1][2] => (Len(cmds) = 1 /\ Len(results) = 1)
  /\ results # <<>> => Len(NsenterCmds) = 1

\* C34 witness: the one command of nsenter failed and the next method
\* has begun
C34_Witness ==
  /\ cmds = << <<"nsenter poweroff", FALSE>> >>
  /\ results = <<ErrNsenter>>
  /\ pc = "sysrq_stat"

\* C35: a call of log with a client returns with its delivery still to
\* be made; while deliveries are outstanding main's goroutine can log
\* again and can end the process; and any of the outstanding deliveries,
\* whatever the order of their calls, can be the next to complete.
C35_DeliveryIndependent ==
  /\ [][(calls' # calls /\ client = "client") =>
          /\ deliveries' = deliveries
          /\ pc' = pc
          /\ \E g \in inflight' \ inflight :
               /\ inflight' = inflight \cup {g}
               /\ g.id = Len(calls')]_vars
  /\ []((pc = "ready" /\ inflight # {}) =>
          /\ ENABLED ProcessExits
          /\ Len(calls) < MaxLogCalls =>
               ENABLED (\E method \in Methods, message \in Messages :
                          LogCall(method, message))
          /\ \A g \in inflight : ENABLED SendErr(g))

\* C35 witness: the delivery of the second call is made while the
\* delivery of the first is outstanding and main's goroutine goes on
C35_Witness ==
  /\ pc = "ready"
  /\ Len(calls) = 2
  /\ \E g \in inflight : g.id = 1
  /\ \E d \in deliveries : d.id = 2

\* C36 as claimed: the context is cancelled only in the signal branch of
\* the select, by a step that ends main; and once it is cancelled no
\* cycle, store operation or shutdown method starts.
C36_AsClaimed ==
  /\ [][(cancelled' /\ ~cancelled) =>
          /\ pc = "wait"
          /\ sigPending
          /\ pc' = "exit0"]_vars
  /\ [][cancelled => (pc' = pc /\ cycles' = cycles /\ ops' = ops
                         /\ attempts' = attempts /\ cmds' = cmds
                         /\ written' = written)]_vars

\* C37: ticker.C holds one tick at most, so the ticks received and the
\* one waiting never outnumber the ticks fired; a tick fired while one is
\* waiting changes nothing but the count of fired ticks; the tick branch
\* leaves the channel empty; and with the channel empty the select does
\* not start a cycle.
C37_OnePendingTick ==
  /\ [](ticksConsumed + PendingTicks <= ticksFired)
  /\ []((pc = "wait" /\ ~tickPending) => ~ENABLED SelectTick)
  /\ [][(ticksFired' > ticksFired /\ tickPending) =>
          /\ tickPending'
          /\ UNCHANGED <<loopVars, checkVars, orchVars, sideVars>>]_vars
  /\ [][(cycles' > cycles /\ cycleKind' = "tick") =>
          /\ tickPending
          /\ ~tickPending'
          /\ ticksFired' = ticksFired]_vars

\* C37 witness: three ticks fired during the startup cycle, two of them
\* were dropped, one cycle has run after it and the loop waits for the
\* next tick
C37_Witness ==
  /\ pc = "wait"
  /\ ticksFired = 3
  /\ ticksConsumed = 1
  /\ ~tickPending
  /\ cycles = 2
  /\ cycleKind = "tick"
  /\ prevCheckRet # CheckUnset

\* C38 as claimed: the interval that main hands to time.NewTicker is
\* positive, and once redis.NewClient has succeeded main is in its loop or
\* has left it by the signal branch, the startup check made.
C38_AsClaimed ==
  pc \notin {"connect", "exit1"} =>
    /\ CheckInterval > 0
    /\ Running \/ pc = "exit0"
    /\ cycles >= 1

====
